---- MODULE Spec2Model ----
(***************************************************************************)
(* Ceph Scrub Manager (src/csm.py): the scrub / deep-scrub scheduling run  *)
(* (do_scrub), its eligibility check (date_check) and its admission check  *)
(* (state_check), run by one or two csm processes against one cluster.     *)
(*                                                                         *)
(* Time is counted in ticks, TicksPerDay ticks to the day.  A timestamp of *)
(* the dump ("%Y-%m-%d %H:%M:%S.%f") is the pair <<day, tick of the day>>; *)
(* strptime turns it into a datetime, the number of ticks since day 0.     *)
(***************************************************************************)
EXTENDS Integers, Sequences, FiniteSets, TLC

\* ------------------------------------------------------------------ bounds
NumPGs == 2          \* placement groups of the cluster
MaxParallel == 1     \* largest --parallel a run is started with
MaxPolls == 2        \* sleeps of one admission wait that the history records
TicksPerDay == 2     \* resolution of datetime: timedelta(days=1) in ticks
MaxErrors == 2       \* largest num_scrub_errors / num_deep_scrub_errors of a PG

\* ------------------------------------------------------- program constants
DsInterval == 7      \* --deep-scrub-interval, default
SInterval == 3       \* --scrub-interval, default
DeepScrubDelay == 15 \* do_scrub('deep-scrub', 15)
ScrubDelay == 1      \* do_scrub('scrub', 1)

Runs == {1, 2}       \* csm processes an operator may have launched
PGs == 1..NumPGs
Kinds == {"scrub", "deep-scrub"}
ClockStart == (DsInterval + 1) * TicksPerDay   \* the tick at which the runs are launched
MaxClock == ClockStart + 1      \* the clock is followed up to this tick
Ticks == 0..MaxClock

Min(a, b) == IF a < b THEN a ELSE b

\* ------------------------------------------------------- the cluster (ceph)
CleanTag == "active+clean"
ScrubbingTag(kind) ==
    IF kind = "deep-scrub" THEN "active+clean+scrubbing+deep"
    ELSE "active+clean+scrubbing"
PGStates == {CleanTag, ScrubbingTag("scrub"), ScrubbingTag("deep-scrub")}
\* States of a PG that is in trouble.
TroubledStates == {"active+undersized+degraded", "peering"}

\* A datetime printed in the dump's format, and read back by strptime.
Format(t) == <<t \div TicksPerDay, t % TicksPerDay>>
strptime(s) == s[1] * TicksPerDay + s[2]
timedelta(days) == days * TicksPerDay
Stamps == {Format(t) : t \in Ticks}

\* Stamps strptime cannot read: a time of day that does not exist (ValueError),
\* and no stamp in the record at all (KeyError on pg['last_..._stamp']).
Malformed == <<0, TicksPerDay>>
Missing == <<>>
Parses(s) == Len(s) = 2 /\ s[1] >= 0 /\ s[2] \in 0..(TicksPerDay - 1)

VARIABLES
    cluster,      \* ceph: pgid -> [state, last_scrub_stamp, last_deep_scrub_stamp,
                  \* stat_sum]
    clock,        \* datetime.now(), in ticks
    config,       \* per run: the parsed command line (self.config)
    pc,           \* per run: where the process stands
    type_,        \* per run: do_scrub's type_
    delay,        \* per run: do_scrub's delay
    pgs,          \* per run: json.loads(self.dump())['pg_stats'] of line 120
    idx,          \* per run: position of the for loop in pgs (1-based)
    date_status,  \* per run: the last value date_check returned
    count,        \* per run: the last value state_check returned
    issued,       \* history, per run: the commands issued, <<pgid, accepted>>
    nowAt,        \* history, per run: the two now() of each date_check, by kind
    wait,         \* history, per run: the current admission wait: what each
                  \* state_check found ("over", "ok") and the seconds slept between
    paces,        \* history, per run: pacing delays slept
    lastEv,       \* history, per run: the last thing the run did to the outside
    fetched,      \* history, per run: the pg_stats of the last dump() it made
    ds_count,     \* per run: status()'s ds_count
    dse_count,    \* per run: status()'s dse_count
    s_count,      \* per run: status()'s s_count
    se_count,     \* per run: status()'s se_count
    own           \* ceph: its own scheduler has started the scrub it had planned

vars == <<cluster, clock, config, pc, type_, delay, pgs, idx, date_status,
          count, issued, nowAt, wait, paces, lastEv, fetched, own,
          ds_count, dse_count, s_count, se_count>>

cvars == <<config, type_, delay>>
hvars == <<issued, nowAt, wait, paces, lastEv, fetched>>
kvars == <<ds_count, dse_count, s_count, se_count>>

\* ----------------------------------------------------------- csm.py, pure
\* dump(): `ceph pg dump --format=json`, decoded; pg_stats in pgid order.
dump(cl) ==
    [pg_stats |-> [i \in 1..NumPGs |->
        [pgid |-> i,
         state |-> cl[i].state,
         last_scrub_stamp |-> cl[i].last_scrub_stamp,
         last_deep_scrub_stamp |-> cl[i].last_deep_scrub_stamp,
         stat_sum |-> cl[i].stat_sum]]]

\* The fields of a pg_stats entry that do_scrub and date_check read.
Entry(pg) ==
    [pgid |-> pg.pgid,
     last_scrub_stamp |-> pg.last_scrub_stamp,
     last_deep_scrub_stamp |-> pg.last_deep_scrub_stamp]
Entries(d) == [i \in DOMAIN d.pg_stats |-> Entry(d.pg_stats[i])]

\* state_check(): count the PGs of a fresh dump whose state is not active+clean.
RECURSIVE state_check_loop(_, _)
state_check_loop(stats, n) ==
    IF stats = <<>> THEN n
    ELSE state_check_loop(Tail(stats),
                          IF Head(stats).state # "active+clean" THEN n + 1 ELSE n)

\* state_check that takes a scrubbing PG for a clean one.
state_check_troubled(cl) ==
    Cardinality({i \in DOMAIN dump(cl).pg_stats : dump(cl).pg_stats[i].state \notin PGStates})

state_check(cl) == state_check_loop(dump(cl).pg_stats, 0)

\* date_check with the comparison turned round (newer than the threshold is due).
date_check_newer(cfg, pg, now_ds, now_s) ==
    LET ds_comp == now_ds - timedelta(cfg.ds_interval)
        s_comp == now_s - timedelta(cfg.s_interval)
        ds_time == strptime(pg.last_deep_scrub_stamp)
        s_time == strptime(pg.last_scrub_stamp)
    IN  [type \in Kinds |->
            IF type = "deep-scrub" THEN ds_time > ds_comp ELSE s_time > s_comp]

\* date_check(pg): now_ds and now_s are the two datetime.now() of lines 84, 85.
date_check(cfg, pg, now_ds, now_s) ==
    LET ds_comp == now_ds - timedelta(cfg.ds_interval)
        s_comp == now_s - timedelta(cfg.s_interval)
        ds_time == strptime(pg.last_deep_scrub_stamp)
        s_time == strptime(pg.last_scrub_stamp)
    IN  [type \in Kinds |->
            IF type = "deep-scrub" THEN ds_time < ds_comp ELSE s_time < s_comp]

\* date_check lines 86-87: strptime is applied to both stamps of the PG,
\* whatever the kind of the run; either one failing raises out of date_check.
date_check_raises(pg) ==
    ~Parses(pg.last_deep_scrub_stamp) \/ ~Parses(pg.last_scrub_stamp)

\* Line 122 with its `continue` lost: no PG is skipped.
skip_never(st, type) == FALSE

\* Line 122: `if not date_status[type_]: continue`.
skip(st, type) == ~st[type]

\* The admission wait that lets one PG more through.
must_wait_one_over(n, cfg) == n > cfg.parallel + 1

\* The admission wait with >= for >.
must_wait_at_ceiling(n, cfg) == n >= cfg.parallel

\* The condition of the admission wait, `while self.state_check() > parallel`.
must_wait(n, cfg) == n > cfg.parallel

\* cli_parser(): --parallel is given, the intervals are left at their
\* defaults, and any of --status, --deep-scrub, --scrub may be set.
AllConfigs == [parallel : 0..MaxParallel, s_interval : {SInterval}, ds_interval : {DsInterval},
               status : BOOLEAN, deep_scrub : BOOLEAN, scrub : BOOLEAN]
\* The command lines of a scheduling run: --deep-scrub or --scrub, one of them.
Configs == {cfg \in AllConfigs : ~cfg.status /\ cfg.deep_scrub # cfg.scrub}
NoConfig == [parallel |-> 0, s_interval |-> 0, ds_interval |-> 0,
             status |-> FALSE, deep_scrub |-> FALSE, scrub |-> FALSE]
NoStatus == [type \in Kinds |-> FALSE]

\* ------------------------------------------------------------------- Init
\* A clean PG at the launch: last scrubbed and deep-scrubbed long ago, or
\* each exactly its default interval before the launch.
NoErrors == [num_scrub_errors |-> 0, num_deep_scrub_errors |-> 0]
Overdue == [state |-> CleanTag,
            last_scrub_stamp |-> Format(0),
            last_deep_scrub_stamp |-> Format(0),
            stat_sum |-> NoErrors]
AtTheEdge == [state |-> CleanTag,
              last_scrub_stamp |-> Format(ClockStart - timedelta(SInterval)),
              last_deep_scrub_stamp |-> Format(ClockStart - timedelta(DsInterval)),
              stat_sum |-> NoErrors]

\* The processes of `launched` stand at the head of main(), the others are
\* not started.
InitProcs(launched) ==
    /\ config = [r \in Runs |-> NoConfig]
    /\ pc = [r \in Runs |-> IF r \in launched THEN "main" ELSE "off"]
    /\ type_ = [r \in Runs |-> "none"]
    /\ delay = [r \in Runs |-> 0]
    /\ pgs = [r \in Runs |-> <<>>]
    /\ idx = [r \in Runs |-> 0]
    /\ date_status = [r \in Runs |-> NoStatus]
    /\ count = [r \in Runs |-> 0]
    /\ issued = [r \in Runs |-> <<>>]
    /\ nowAt = [r \in Runs |-> <<>>]
    /\ wait = [r \in Runs |-> <<>>]
    /\ paces = [r \in Runs |-> 0]
    /\ lastEv = [r \in Runs |-> "none"]
    /\ fetched = [r \in Runs |-> <<>>]
    /\ ds_count = [r \in Runs |-> 0]
    /\ dse_count = [r \in Runs |-> 0]
    /\ s_count = [r \in Runs |-> 0]
    /\ se_count = [r \in Runs |-> 0]

InitWith(launched, start) ==
    /\ cluster \in [PGs -> {Overdue, AtTheEdge}]
    /\ own = FALSE
    /\ clock = start
    /\ InitProcs(launched)

\* One csm process is launched.
Init == InitWith({1}, ClockStart)

\* ------------------------------------------------------- csm.py, the steps
\* main() with --deep-scrub taken after --scrub.
main_scrub_first(r, cfgs) ==
    /\ pc[r] = "main"
    /\ \E cfg \in cfgs :
        /\ config' = [config EXCEPT ![r] = cfg]
        /\ IF cfg.status
           THEN /\ pc' = [pc EXCEPT ![r] = "status"]
                /\ UNCHANGED <<type_, delay>>
           ELSE IF cfg.scrub
           THEN /\ type_' = [type_ EXCEPT ![r] = "scrub"]
                /\ delay' = [delay EXCEPT ![r] = ScrubDelay]
                /\ pc' = [pc EXCEPT ![r] = "dump"]
           ELSE IF cfg.deep_scrub
           THEN /\ type_' = [type_ EXCEPT ![r] = "deep-scrub"]
                /\ delay' = [delay EXCEPT ![r] = DeepScrubDelay]
                /\ pc' = [pc EXCEPT ![r] = "dump"]
           ELSE /\ pc' = [pc EXCEPT ![r] = "exit"]
                /\ UNCHANGED <<type_, delay>>
    /\ UNCHANGED <<kvars, cluster, clock, pgs, idx, date_status, count, hvars, own>>

\* main() lines 176-188 on a command line of cfgs: status() if --status,
\* else do_scrub('deep-scrub', 15) if --deep-scrub, else do_scrub('scrub', 1)
\* if --scrub, else nothing at all.
main(r, cfgs) ==
    /\ pc[r] = "main"
    /\ \E cfg \in cfgs :
        /\ config' = [config EXCEPT ![r] = cfg]
        /\ IF cfg.status
           THEN /\ pc' = [pc EXCEPT ![r] = "status"]
                /\ UNCHANGED <<type_, delay>>
           ELSE IF cfg.deep_scrub
           THEN /\ type_' = [type_ EXCEPT ![r] = "deep-scrub"]
                /\ delay' = [delay EXCEPT ![r] = DeepScrubDelay]
                /\ pc' = [pc EXCEPT ![r] = "dump"]
           ELSE IF cfg.scrub
           THEN /\ type_' = [type_ EXCEPT ![r] = "scrub"]
                /\ delay' = [delay EXCEPT ![r] = ScrubDelay]
                /\ pc' = [pc EXCEPT ![r] = "dump"]
           ELSE /\ pc' = [pc EXCEPT ![r] = "exit"]
                /\ UNCHANGED <<type_, delay>>
    /\ UNCHANGED <<kvars, cluster, clock, pgs, idx, date_status, count, hvars, own>>

\* main() of a scheduling run: --deep-scrub or --scrub.
Main(r) == main(r, Configs)

\* do_scrub line 120: the one dump the for loop iterates.
Dump(r) ==
    /\ pc[r] = "dump"
    /\ pgs' = [pgs EXCEPT ![r] = Entries(dump(cluster))]
    /\ idx' = [idx EXCEPT ![r] = 1]
    /\ pc' = [pc EXCEPT ![r] = "for"]
    /\ lastEv' = [lastEv EXCEPT ![r] = "dump"]
    /\ fetched' = [fetched EXCEPT ![r] = Entries(dump(cluster))]
    /\ UNCHANGED <<kvars, cluster, clock, cvars, date_status, count, issued, nowAt, wait, paces, own>>

\* do_scrub lines 120-124: the next PG of the dump and its date_check.
DateCheck(r) ==
    /\ pc[r] = "for"
    /\ idx[r] <= Len(pgs[r])
    /\ ~date_check_raises(pgs[r][idx[r]])
    /\ \E now_s \in {clock, Min(clock + 1, MaxClock)} :
        LET pg == pgs[r][idx[r]]
            st == date_check(config[r], pg, clock, now_s)
        IN  /\ clock' = now_s
            /\ date_status' = [date_status EXCEPT ![r] = st]
            /\ nowAt' = [nowAt EXCEPT ![r] =
                            Append(@, [type \in Kinds |->
                                          IF type = "scrub" THEN now_s ELSE clock])]
            /\ IF skip(st, type_[r])
               THEN /\ idx' = [idx EXCEPT ![r] = @ + 1]
                    /\ UNCHANGED <<pc, wait>>
               ELSE /\ pc' = [pc EXCEPT ![r] = "while"]
                    /\ wait' = [wait EXCEPT ![r] = <<>>]
                    /\ UNCHANGED idx
    /\ UNCHANGED <<kvars, cluster, cvars, pgs, count, issued, paces, lastEv, own, fetched>>

\* The history of an admission wait: kept for MaxPolls sleeps, then cut to "long".
Noted(w, e) ==
    IF e = "ok" THEN Append(w, e)
    ELSE IF w = <<"long">> \/ Len(w) >= 2 * MaxPolls THEN <<"long">>
    ELSE Append(w, e)

\* The admission wait with a timeout: it gives up once the wait is long.
StateCheckGivesUp(r) ==
    /\ pc[r] = "while"
    /\ LET n == state_check(cluster)
       IN  /\ count' = [count EXCEPT ![r] = n]
           /\ wait' = [wait EXCEPT ![r] =
                          IF n > config[r].parallel /\ @ = <<"long">> THEN @
                          ELSE Noted(@, IF n <= config[r].parallel THEN "ok" ELSE "over")]
           /\ pc' = [pc EXCEPT ![r] =
                        IF must_wait(n, config[r]) /\ wait[r] # <<"long">>
                        THEN "sleep" ELSE "issue"]
    /\ lastEv' = [lastEv EXCEPT ![r] = "check"]
    /\ fetched' = [fetched EXCEPT ![r] = Entries(dump(cluster))]
    /\ UNCHANGED <<kvars, cluster, clock, cvars, pgs, idx, date_status, issued, nowAt, paces, own>>

\* do_scrub line 126: state_check() on a fresh dump, compared with --parallel.
StateCheck(r) ==
    /\ pc[r] = "while"
    /\ LET n == state_check(cluster)
       IN  /\ count' = [count EXCEPT ![r] = n]
           /\ wait' = [wait EXCEPT ![r] =
                          Noted(@, IF n <= config[r].parallel THEN "ok" ELSE "over")]
           /\ pc' = [pc EXCEPT ![r] = IF must_wait(n, config[r]) THEN "sleep" ELSE "issue"]
    /\ lastEv' = [lastEv EXCEPT ![r] = "check"]
    /\ fetched' = [fetched EXCEPT ![r] = Entries(dump(cluster))]
    /\ UNCHANGED <<kvars, cluster, clock, cvars, pgs, idx, date_status, issued, nowAt, paces, own>>

\* The admission wait as an `if`: one sleep, then the command.
PollSleepOnce(r) ==
    /\ pc[r] = "sleep"
    /\ wait' = [wait EXCEPT ![r] = Noted(@, "sleep")]
    /\ pc' = [pc EXCEPT ![r] = "issue"]
    /\ lastEv' = [lastEv EXCEPT ![r] = "sleep"]
    /\ clock' \in {clock, Min(clock + 1, MaxClock)}
    /\ UNCHANGED <<kvars, cluster, cvars, pgs, idx, date_status, count, issued, nowAt, paces, own, fetched>>

\* do_scrub lines 127-128: time.sleep(30), then the while condition again.
\* The sleep may take the clock into its next tick.
PollSleep(r) ==
    /\ pc[r] = "sleep"
    /\ wait' = [wait EXCEPT ![r] = Noted(@, "sleep")]
    /\ pc' = [pc EXCEPT ![r] = "while"]
    /\ lastEv' = [lastEv EXCEPT ![r] = "sleep"]
    /\ clock' \in {clock, Min(clock + 1, MaxClock)}
    /\ UNCHANGED <<kvars, cluster, cvars, pgs, idx, date_status, count, issued, nowAt, paces, own, fetched>>

\* What `ceph pg <type_> <pgid>` does to the cluster when ceph accepts it.
Scrubbed(cl, kind, p) ==
    IF cl[p].state = CleanTag THEN [cl EXCEPT ![p].state = ScrubbingTag(kind)] ELSE cl

\* The command with its exit status checked: a rejected command ends the run.
IssueOrAbort(r) ==
    /\ pc[r] = "issue"
    /\ LET p == pgs[r][idx[r]].pgid
       IN  \E accepted \in BOOLEAN :
            /\ cluster' = IF accepted THEN Scrubbed(cluster, type_[r], p) ELSE cluster
            /\ issued' = [issued EXCEPT ![r] = Append(@, <<p, accepted>>)]
            /\ pc' = [pc EXCEPT ![r] = IF accepted THEN "pace" ELSE "error"]
    /\ lastEv' = [lastEv EXCEPT ![r] = "cmd"]
    /\ UNCHANGED <<kvars, clock, cvars, pgs, idx, date_status, count, nowAt, wait, paces, own, fetched>>

\* do_scrub lines 130-134: the command; its exit status and output are not read.
Issue(r) ==
    /\ pc[r] = "issue"
    /\ LET p == pgs[r][idx[r]].pgid
       IN  \E accepted \in BOOLEAN :
            /\ cluster' = IF accepted THEN Scrubbed(cluster, type_[r], p) ELSE cluster
            /\ issued' = [issued EXCEPT ![r] = Append(@, <<p, accepted>>)]
    /\ pc' = [pc EXCEPT ![r] = "pace"]
    /\ lastEv' = [lastEv EXCEPT ![r] = "cmd"]
    /\ UNCHANGED <<kvars, clock, cvars, pgs, idx, date_status, count, nowAt, wait, paces, own, fetched>>

\* The pacing sleep that goes back to the same PG.
PaceSleepStays(r) ==
    /\ pc[r] = "pace"
    /\ paces' = [paces EXCEPT ![r] = @ + 1]
    /\ pc' = [pc EXCEPT ![r] = "for"]
    /\ lastEv' = [lastEv EXCEPT ![r] = "pace"]
    /\ clock' \in {clock, Min(clock + 1, MaxClock)}
    /\ UNCHANGED <<kvars, cluster, cvars, pgs, idx, date_status, count, issued, nowAt, wait, own, fetched>>

\* do_scrub line 135: time.sleep(delay), then the next PG.
\* The sleep may take the clock into its next tick.
PaceSleep(r) ==
    /\ pc[r] = "pace"
    /\ paces' = [paces EXCEPT ![r] = @ + 1]
    /\ idx' = [idx EXCEPT ![r] = @ + 1]
    /\ pc' = [pc EXCEPT ![r] = "for"]
    /\ lastEv' = [lastEv EXCEPT ![r] = "pace"]
    /\ clock' \in {clock, Min(clock + 1, MaxClock)}
    /\ UNCHANGED <<kvars, cluster, cvars, pgs, date_status, count, issued, nowAt, wait, own, fetched>>

\* The completion line printed on reaching the last PG, not on leaving it.
ReportEarly(r) ==
    /\ pc[r] = "for"
    /\ idx[r] >= Len(pgs[r])
    /\ pc' = [pc EXCEPT ![r] = "done"]
    /\ UNCHANGED <<kvars, cluster, clock, cvars, pgs, idx, date_status, count, hvars, own>>

\* do_scrub line 137: "All PGs have been ...'d", and the process exits.
Report(r) ==
    /\ pc[r] = "for"
    /\ idx[r] > Len(pgs[r])
    /\ pc' = [pc EXCEPT ![r] = "done"]
    /\ UNCHANGED <<kvars, cluster, clock, cvars, pgs, idx, date_status, count, hvars, own>>

\* do_scrub, step by step.
Run(r) ==
    \/ Dump(r)
    \/ DateCheck(r)
    \/ StateCheck(r)
    \/ PollSleep(r)
    \/ Issue(r)
    \/ PaceSleep(r)
    \/ Report(r)

Step(r) ==
    \/ Main(r)
    \/ Run(r)

\* ------------------------------------------------- csm.py, the exceptions
\* Nothing in csm.py catches an exception: one raised in dump(), json.loads
\* or strptime unwinds do_scrub or status and main, and the process ends with
\* a traceback (pc "error").

\* do_scrub line 120 when the fetch fails: ceph is not reachable or prints
\* nothing or no JSON with pg_stats, and Popen, json.loads or ['pg_stats'] raises.
DumpFails(r) ==
    /\ pc[r] = "dump"
    /\ pc' = [pc EXCEPT ![r] = "error"]
    /\ lastEv' = [lastEv EXCEPT ![r] = "fetch_failed"]
    /\ UNCHANGED <<kvars, cluster, clock, cvars, pgs, idx, date_status, count, issued,
                   nowAt, wait, paces, fetched, own>>

\* A poll whose failed fetch counts as over the ceiling: sleep and try again.
StateCheckRetries(r) ==
    /\ pc[r] = "while"
    /\ pc' = [pc EXCEPT ![r] = "sleep"]
    /\ lastEv' = [lastEv EXCEPT ![r] = "fetch_failed"]
    /\ UNCHANGED <<kvars, cluster, clock, cvars, pgs, idx, date_status, count, issued,
                   nowAt, wait, paces, fetched, own>>

\* do_scrub line 126 when the fetch of state_check (line 74) fails.
StateCheckFails(r) ==
    /\ pc[r] = "while"
    /\ pc' = [pc EXCEPT ![r] = "error"]
    /\ lastEv' = [lastEv EXCEPT ![r] = "fetch_failed"]
    /\ UNCHANGED <<kvars, cluster, clock, cvars, pgs, idx, date_status, count, issued,
                   nowAt, wait, paces, fetched, own>>

\* A PG whose stamp cannot be read is passed over, and the loop goes on.
DateCheckSkips(r) ==
    /\ pc[r] = "for"
    /\ idx[r] <= Len(pgs[r])
    /\ date_check_raises(pgs[r][idx[r]])
    /\ clock' \in {clock, Min(clock + 1, MaxClock)}
    /\ idx' = [idx EXCEPT ![r] = @ + 1]
    /\ UNCHANGED <<kvars, cluster, cvars, pc, pgs, date_status, count, hvars, own>>

\* do_scrub line 121 when date_check raises: the two now() of lines 84-85
\* have been taken, strptime fails on line 86 or 87.
DateCheckRaises(r) ==
    /\ pc[r] = "for"
    /\ idx[r] <= Len(pgs[r])
    /\ date_check_raises(pgs[r][idx[r]])
    /\ clock' \in {clock, Min(clock + 1, MaxClock)}
    /\ pc' = [pc EXCEPT ![r] = "error"]
    /\ UNCHANGED <<kvars, cluster, cvars, pgs, idx, date_status, count, hvars, own>>

Fails(r) ==
    \/ DumpFails(r)
    \/ StateCheckFails(r)
    \/ DateCheckRaises(r)

\* ---------------------------------------------------- csm.py, status()
\* status lines 140-145: the counters start at zero, and the one dump of the
\* report is fetched.
StatusDump(r) ==
    /\ pc[r] = "status"
    /\ ds_count' = [ds_count EXCEPT ![r] = 0]
    /\ dse_count' = [dse_count EXCEPT ![r] = 0]
    /\ s_count' = [s_count EXCEPT ![r] = 0]
    /\ se_count' = [se_count EXCEPT ![r] = 0]
    /\ pgs' = [pgs EXCEPT ![r] = dump(cluster).pg_stats]
    /\ idx' = [idx EXCEPT ![r] = 1]
    /\ pc' = [pc EXCEPT ![r] = "status_for"]
    /\ lastEv' = [lastEv EXCEPT ![r] = "dump"]
    /\ fetched' = [fetched EXCEPT ![r] = dump(cluster).pg_stats]
    /\ UNCHANGED <<cluster, clock, cvars, date_status, count, issued, nowAt, wait, paces, own>>

\* status line 145 when the fetch fails.
StatusDumpFails(r) ==
    /\ pc[r] = "status"
    /\ pc' = [pc EXCEPT ![r] = "error"]
    /\ lastEv' = [lastEv EXCEPT ![r] = "fetch_failed"]
    /\ UNCHANGED <<kvars, cluster, clock, cvars, pgs, idx, date_status, count, issued,
                   nowAt, wait, paces, fetched, own>>

Bump(c, r, b) == [c EXCEPT ![r] = IF b THEN @ + 1 ELSE @]

\* status() with `elif` for its second to fourth `if`: one counter per PG.
StatusVisitElif(r) ==
    /\ pc[r] = "status_for"
    /\ idx[r] <= Len(pgs[r])
    /\ ~date_check_raises(pgs[r][idx[r]])
    /\ \E now_s \in {clock, Min(clock + 1, MaxClock)} :
        LET pg == pgs[r][idx[r]]
            st == date_check(config[r], pg, clock, now_s)
            s == st["scrub"]
            ds == ~s /\ st["deep-scrub"]
            se == ~s /\ ~ds /\ pg.stat_sum.num_scrub_errors > 0
        IN  /\ clock' = now_s
            /\ date_status' = [date_status EXCEPT ![r] = st]
            /\ nowAt' = [nowAt EXCEPT ![r] =
                            Append(@, [type \in Kinds |->
                                          IF type = "scrub" THEN now_s ELSE clock])]
            /\ s_count' = Bump(s_count, r, s)
            /\ ds_count' = Bump(ds_count, r, ds)
            /\ se_count' = Bump(se_count, r, se)
            /\ dse_count' = Bump(dse_count, r, ~s /\ ~ds /\ ~se
                                                /\ pg.stat_sum.num_deep_scrub_errors > 0)
    /\ idx' = [idx EXCEPT ![r] = @ + 1]
    /\ UNCHANGED <<cluster, cvars, pc, pgs, count, issued, wait, paces, lastEv, fetched, own>>

\* status() that starts the scrub of a PG it finds overdue.
StatusVisitScrubs(r) ==
    /\ pc[r] = "status_for"
    /\ idx[r] <= Len(pgs[r])
    /\ ~date_check_raises(pgs[r][idx[r]])
    /\ \E now_s \in {clock, Min(clock + 1, MaxClock)} :
        LET pg == pgs[r][idx[r]]
            st == date_check(config[r], pg, clock, now_s)
        IN  /\ clock' = now_s
            /\ date_status' = [date_status EXCEPT ![r] = st]
            /\ nowAt' = [nowAt EXCEPT ![r] =
                            Append(@, [type \in Kinds |->
                                          IF type = "scrub" THEN now_s ELSE clock])]
            /\ s_count' = Bump(s_count, r, st["scrub"])
            /\ ds_count' = Bump(ds_count, r, st["deep-scrub"])
            /\ se_count' = Bump(se_count, r, pg.stat_sum.num_scrub_errors > 0)
            /\ dse_count' = Bump(dse_count, r, pg.stat_sum.num_deep_scrub_errors > 0)
            /\ cluster' = IF st["scrub"] THEN Scrubbed(cluster, "scrub", pg.pgid) ELSE cluster
    /\ idx' = [idx EXCEPT ![r] = @ + 1]
    /\ UNCHANGED <<cvars, pc, pgs, count, issued, wait, paces, lastEv, fetched, own>>

\* status lines 145-167: the next PG of the dump, its date_check and the
\* four `if`s, each with its own counter.
StatusVisit(r) ==
    /\ pc[r] = "status_for"
    /\ idx[r] <= Len(pgs[r])
    /\ ~date_check_raises(pgs[r][idx[r]])
    /\ \E now_s \in {clock, Min(clock + 1, MaxClock)} :
        LET pg == pgs[r][idx[r]]
            st == date_check(config[r], pg, clock, now_s)
        IN  /\ clock' = now_s
            /\ date_status' = [date_status EXCEPT ![r] = st]
            /\ nowAt' = [nowAt EXCEPT ![r] =
                            Append(@, [type \in Kinds |->
                                          IF type = "scrub" THEN now_s ELSE clock])]
            /\ s_count' = Bump(s_count, r, st["scrub"])
            /\ ds_count' = Bump(ds_count, r, st["deep-scrub"])
            /\ se_count' = Bump(se_count, r, pg.stat_sum.num_scrub_errors > 0)
            /\ dse_count' = Bump(dse_count, r, pg.stat_sum.num_deep_scrub_errors > 0)
    /\ idx' = [idx EXCEPT ![r] = @ + 1]
    /\ UNCHANGED <<cluster, cvars, pc, pgs, count, issued, wait, paces, lastEv, fetched, own>>

\* status line 146 when date_check raises.
StatusRaises(r) ==
    /\ pc[r] = "status_for"
    /\ idx[r] <= Len(pgs[r])
    /\ date_check_raises(pgs[r][idx[r]])
    /\ clock' \in {clock, Min(clock + 1, MaxClock)}
    /\ pc' = [pc EXCEPT ![r] = "error"]
    /\ UNCHANGED <<kvars, cluster, cvars, pgs, idx, date_status, count, hvars, own>>

\* status lines 169-172: the four summary lines, and the process exits.
StatusReport(r) ==
    /\ pc[r] = "status_for"
    /\ idx[r] > Len(pgs[r])
    /\ pc' = [pc EXCEPT ![r] = "done"]
    /\ UNCHANGED <<kvars, cluster, clock, cvars, pgs, idx, date_status, count, hvars, own>>

\* status(), step by step.
Status(r) ==
    \/ StatusDump(r)
    \/ StatusVisit(r)
    \/ StatusReport(r)

StatusFails(r) ==
    \/ StatusDumpFails(r)
    \/ StatusRaises(r)

\* ------------------------------------------------------------ the cluster
\* A scrub in flight ends: the PG is clean again and its stamp is now.
ScrubEnds(p) ==
    /\ cluster[p].state \in {ScrubbingTag("scrub"), ScrubbingTag("deep-scrub")}
    /\ cluster' = [cluster EXCEPT
          ![p] = IF @.state = ScrubbingTag("scrub")
                 THEN [@ EXCEPT !.state = CleanTag, !.last_scrub_stamp = Format(clock)]
                 ELSE [@ EXCEPT !.state = CleanTag, !.last_deep_scrub_stamp = Format(clock)]]
    /\ UNCHANGED <<kvars, clock, cvars, pc, pgs, idx, date_status, count, hvars, own>>

\* Ceph's own scheduler starts a scrub of a clean PG, unrelated to the runs;
\* the runs are followed over one such scrub.
ClusterScrubs(p) ==
    /\ cluster[p].state = CleanTag
    /\ ~own
    /\ own' = TRUE
    /\ \E k \in Kinds : cluster' = Scrubbed(cluster, k, p)
    /\ UNCHANGED <<kvars, clock, cvars, pc, pgs, idx, date_status, count, hvars>>

Next ==
    \/ \E r \in Runs : Step(r)
    \/ \E p \in PGs : ScrubEnds(p)
    \/ \E p \in PGs : ClusterScrubs(p)

Spec == Init /\ [][Next]_vars

\* The cluster left to the runs: a PG leaves active+clean only by a command
\* of a run.
NextQuiet ==
    \/ \E r \in Runs : Step(r)
    \/ \E p \in PGs : ScrubEnds(p)

\* One run on a quiet cluster.
SpecSolo == Init /\ [][NextQuiet]_vars

\* One run on a quiet cluster where things happen: the process is scheduled
\* (no statement of it waits for anything but ceph's answers and its own
\* sleeps, which end), and a scrub that ceph has started ends.
SpecLive ==
    /\ Init
    /\ [][NextQuiet]_vars
    /\ \A r \in Runs : WF_vars(Step(r))
    /\ \A p \in PGs : WF_vars(ScrubEnds(p))

\* The same command line launched twice, side by side, on a quiet cluster:
\* both processes are past main() with the same --parallel, both started with
\* --deep-scrub, and are followed within one tick of the clock.
InitDuo ==
    /\ cluster = [p \in PGs |-> Overdue]
    /\ own = FALSE
    /\ clock = MaxClock
    /\ \E cfg \in Configs : cfg.deep_scrub /\ config = [r \in Runs |-> cfg]
    /\ type_ = [r \in Runs |-> "deep-scrub"]
    /\ delay = [r \in Runs |-> DeepScrubDelay]
    /\ pc = [r \in Runs |-> "dump"]
    /\ pgs = [r \in Runs |-> <<>>]
    /\ idx = [r \in Runs |-> 0]
    /\ date_status = [r \in Runs |-> NoStatus]
    /\ count = [r \in Runs |-> 0]
    /\ issued = [r \in Runs |-> <<>>]
    /\ nowAt = [r \in Runs |-> <<>>]
    /\ wait = [r \in Runs |-> <<>>]
    /\ paces = [r \in Runs |-> 0]
    /\ lastEv = [r \in Runs |-> "none"]
    /\ fetched = [r \in Runs |-> <<>>]
    /\ ds_count = [r \in Runs |-> 0]
    /\ dse_count = [r \in Runs |-> 0]
    /\ s_count = [r \in Runs |-> 0]
    /\ se_count = [r \in Runs |-> 0]
NextDuo ==
    \/ \E r \in Runs : Run(r)
    \/ \E p \in PGs : ScrubEnds(p)
SpecDuo == InitDuo /\ [][NextDuo]_vars

\* ------------------------------------------- date_check on its own inputs
\* One PG of the dump carries any two stamps, the intervals are any of
\* Intervals, and the run stands at the head of its for loop.
Intervals == {0, SInterval, DsInterval}

InitDate ==
    /\ \E s \in Stamps, d \in Stamps :
         cluster = [p \in PGs |->
                      [state |-> CleanTag,
                       last_scrub_stamp |-> IF p = 1 THEN s ELSE Format(0),
                       last_deep_scrub_stamp |-> IF p = 1 THEN d ELSE Format(0),
                       stat_sum |-> NoErrors]]
    /\ own = FALSE
    /\ clock = ClockStart
    /\ config \in [Runs -> [parallel : {0}, s_interval : Intervals, ds_interval : Intervals,
                              status : {FALSE}, deep_scrub : BOOLEAN, scrub : BOOLEAN]]
    /\ \A r \in Runs : config[r].deep_scrub # config[r].scrub /\ config[r] = config[1]
    /\ pc = [r \in Runs |-> IF r = 1 THEN "for" ELSE "off"]
    /\ type_ = [r \in Runs |-> IF config[r].deep_scrub THEN "deep-scrub" ELSE "scrub"]
    /\ delay = [r \in Runs |-> IF type_[r] = "deep-scrub" THEN DeepScrubDelay ELSE ScrubDelay]
    /\ pgs = [r \in Runs |-> IF r = 1 THEN Entries(dump(cluster)) ELSE <<>>]
    /\ idx = [r \in Runs |-> IF r = 1 THEN 1 ELSE 0]
    /\ date_status = [r \in Runs |-> NoStatus]
    /\ count = [r \in Runs |-> 0]
    /\ issued = [r \in Runs |-> <<>>]
    /\ nowAt = [r \in Runs |-> <<>>]
    /\ wait = [r \in Runs |-> <<>>]
    /\ paces = [r \in Runs |-> 0]
    /\ lastEv = [r \in Runs |-> "dump"]
    /\ fetched = pgs
    /\ ds_count = [r \in Runs |-> 0]
    /\ dse_count = [r \in Runs |-> 0]
    /\ s_count = [r \in Runs |-> 0]
    /\ se_count = [r \in Runs |-> 0]

NextDate == \E r \in Runs : DateCheck(r)

SpecDate == InitDate /\ [][NextDate]_vars

\* ------------------------------------------------- main(), any selectors
\* One csm process started with any of --status, --deep-scrub, --scrub, or
\* none of them, on a quiet cluster.
MainAny(r) == main(r, AllConfigs)

NextMain ==
    \/ \E r \in Runs : MainAny(r)
    \/ \E r \in Runs : Run(r)
    \/ \E r \in Runs : Status(r)
    \/ \E p \in PGs : ScrubEnds(p)

SpecMain == Init /\ [][NextMain]_vars

\* ------------------------------------------------------------ signals
\* csm.py installs no signal handler and catches no KeyboardInterrupt: a
\* SIGINT or SIGTERM sent to the process ends it wherever it stands, in a
\* sleep (pc "interrupted_asleep") or between or inside other statements.
Interrupt(r) ==
    /\ pc[r] \in {"main", "dump", "for", "while", "sleep", "issue", "pace"}
    /\ pc' = [pc EXCEPT ![r] = IF @ \in {"sleep", "pace"} THEN "interrupted_asleep"
                                ELSE "interrupted"]
    /\ UNCHANGED <<kvars, cluster, clock, cvars, pgs, idx, date_status, count, hvars, own>>

\* do_scrub lines 131-134 when the signal comes after Popen has started
\* `ceph pg <type_> <pgid>` and before communicate() has its answer.
IssueInterrupted(r) ==
    /\ pc[r] = "issue"
    /\ LET p == pgs[r][idx[r]].pgid
       IN  \E accepted \in BOOLEAN :
            /\ cluster' = IF accepted THEN Scrubbed(cluster, type_[r], p) ELSE cluster
            /\ issued' = [issued EXCEPT ![r] = Append(@, <<p, accepted>>)]
    /\ pc' = [pc EXCEPT ![r] = "interrupted_in_command"]
    /\ lastEv' = [lastEv EXCEPT ![r] = "cmd"]
    /\ UNCHANGED <<kvars, clock, cvars, pgs, idx, date_status, count, nowAt, wait, paces, own, fetched>>

NextCancel ==
    \/ \E r \in Runs : Step(r)
    \/ \E r \in Runs : Interrupt(r)
    \/ \E r \in Runs : IssueInterrupted(r)
    \/ \E p \in PGs : ScrubEnds(p)

\* One run on a quiet cluster, with signals.
SpecCancel == Init /\ [][NextCancel]_vars

\* ------------------------------------------- state_check on its own inputs
\* One scheduling run, past main(), on a cluster of overdue PGs each in any
\* state, clean, scrubbing or troubled; troubled PGs recover by themselves.
\* The run is followed within one tick of the clock.
Recovers(p) ==
    /\ cluster[p].state \in TroubledStates
    /\ cluster' = [cluster EXCEPT ![p].state = CleanTag]
    /\ UNCHANGED <<kvars, clock, cvars, pc, pgs, idx, date_status, count, hvars, own>>

InitCount ==
    /\ cluster \in [PGs -> {[Overdue EXCEPT !.state = st] : st \in PGStates \cup TroubledStates}]
    /\ own = FALSE
    /\ clock = MaxClock
    /\ \E cfg \in Configs :
         /\ config = [r \in Runs |-> IF r = 1 THEN cfg ELSE NoConfig]
         /\ type_ = [r \in Runs |-> IF r # 1 THEN "none"
                                     ELSE IF cfg.deep_scrub THEN "deep-scrub" ELSE "scrub"]
         /\ delay = [r \in Runs |-> IF r # 1 THEN 0
                                     ELSE IF cfg.deep_scrub THEN DeepScrubDelay ELSE ScrubDelay]
    /\ pc = [r \in Runs |-> IF r = 1 THEN "dump" ELSE "off"]
    /\ pgs = [r \in Runs |-> <<>>]
    /\ idx = [r \in Runs |-> 0]
    /\ date_status = [r \in Runs |-> NoStatus]
    /\ count = [r \in Runs |-> 0]
    /\ issued = [r \in Runs |-> <<>>]
    /\ nowAt = [r \in Runs |-> <<>>]
    /\ wait = [r \in Runs |-> <<>>]
    /\ paces = [r \in Runs |-> 0]
    /\ lastEv = [r \in Runs |-> "none"]
    /\ fetched = [r \in Runs |-> <<>>]
    /\ ds_count = [r \in Runs |-> 0]
    /\ dse_count = [r \in Runs |-> 0]
    /\ s_count = [r \in Runs |-> 0]
    /\ se_count = [r \in Runs |-> 0]

NextCount ==
    \/ \E r \in Runs : Run(r)
    \/ \E p \in PGs : ScrubEnds(p)
    \/ \E p \in PGs : Recovers(p)

SpecCount == InitCount /\ [][NextCount]_vars

\* ------------------------------------------------ a cluster with faults
\* One csm process, started with one of --status, --deep-scrub, --scrub and
\* --parallel 0, on a cluster whose fetch may fail at any time and whose PGs
\* carry stamps that are old, fresh, malformed or missing; each PG has at
\* least one stamp that is old.
FaultyStamps == {Format(0), Format(ClockStart), Malformed, Missing}
FaultyPGs ==
    {pg \in [state : {CleanTag}, last_scrub_stamp : FaultyStamps,
             last_deep_scrub_stamp : FaultyStamps, stat_sum : {NoErrors}] :
        pg.last_scrub_stamp = Format(0) \/ pg.last_deep_scrub_stamp = Format(0)}
Selected(cfg) ==
    {f \in {"status", "deep_scrub", "scrub"} :
        \/ f = "status" /\ cfg.status
        \/ f = "deep_scrub" /\ cfg.deep_scrub
        \/ f = "scrub" /\ cfg.scrub}
FaultyConfigs == {cfg \in AllConfigs : cfg.parallel = 0 /\ Cardinality(Selected(cfg)) = 1}

InitFaulty ==
    /\ cluster \in [PGs -> FaultyPGs]
    /\ own = FALSE
    /\ clock = ClockStart
    /\ InitProcs({1})

MainFaulty(r) == main(r, FaultyConfigs)

NextFaulty ==
    \/ \E r \in Runs : MainFaulty(r)
    \/ \E r \in Runs : Run(r)
    \/ \E r \in Runs : Fails(r)
    \/ \E r \in Runs : Status(r)
    \/ \E r \in Runs : StatusFails(r)
    \/ \E p \in PGs : ScrubEnds(p)

SpecFaulty == InitFaulty /\ [][NextFaulty]_vars

\* --------------------------------------------------- two status reports
\* `csm.py --status` launched twice, side by side: both processes are past
\* main().  Each PG is overdue for both kinds, or for scrub alone, or stands
\* at the edge of both intervals, and has for each kind no errors or
\* MaxErrors of them; nothing else acts on the cluster.
StatusPGs ==
    {pg \in [state : {CleanTag},
             last_scrub_stamp : {Format(0), AtTheEdge.last_scrub_stamp},
             last_deep_scrub_stamp : {Format(0), AtTheEdge.last_deep_scrub_stamp},
             stat_sum : [num_scrub_errors : {0, MaxErrors},
                         num_deep_scrub_errors : {0, MaxErrors}]] :
        pg.last_deep_scrub_stamp = Format(0) => pg.last_scrub_stamp = Format(0)}
StatusConfig == [parallel |-> 0, s_interval |-> SInterval, ds_interval |-> DsInterval,
                 status |-> TRUE, deep_scrub |-> FALSE, scrub |-> FALSE]

InitStatus ==
    /\ cluster \in [PGs -> StatusPGs]
    /\ own = FALSE
    /\ clock = ClockStart
    /\ config = [r \in Runs |-> StatusConfig]
    /\ pc = [r \in Runs |-> "status"]
    /\ type_ = [r \in Runs |-> "none"]
    /\ delay = [r \in Runs |-> 0]
    /\ pgs = [r \in Runs |-> <<>>]
    /\ idx = [r \in Runs |-> 0]
    /\ date_status = [r \in Runs |-> NoStatus]
    /\ count = [r \in Runs |-> 0]
    /\ issued = [r \in Runs |-> <<>>]
    /\ nowAt = [r \in Runs |-> <<>>]
    /\ wait = [r \in Runs |-> <<>>]
    /\ paces = [r \in Runs |-> 0]
    /\ lastEv = [r \in Runs |-> "none"]
    /\ fetched = [r \in Runs |-> <<>>]
    /\ ds_count = [r \in Runs |-> 0]
    /\ dse_count = [r \in Runs |-> 0]
    /\ s_count = [r \in Runs |-> 0]
    /\ se_count = [r \in Runs |-> 0]

NextStatus == \E r \in Runs : Status(r)

SpecStatus == InitStatus /\ [][NextStatus]_vars

\* ------------------------------------------------------------- the claims
\* What the specification calls things.
Unhealthy(cl) == {p \in PGs : cl[p].state # CleanTag}
UnhealthyCount(cl) == Cardinality(Unhealthy(cl))
StampOf(pg, kind) ==
    IF kind = "deep-scrub" THEN pg.last_deep_scrub_stamp ELSE pg.last_scrub_stamp
DaysOf(cfg, kind) == IF kind = "deep-scrub" THEN cfg.ds_interval ELSE cfg.s_interval
\* <<day, tick>> a is strictly earlier than <<day, tick>> b.
Earlier(a, b) == a[1] < b[1] \/ (a[1] = b[1] /\ a[2] < b[2])
DaysBefore(t, days) == <<t[1] - days, t[2]>>
\* The threshold of section 4.1: now minus the kind's interval in days.
Threshold(cfg, kind, now) == DaysBefore(Format(now), DaysOf(cfg, kind))
IsDue(pg, kind, cfg, now) == Earlier(StampOf(pg, kind), Threshold(cfg, kind, now))

\* C1: a command is issued only directly after an admission check that
\* succeeded: the run's last act before the command is a state_check whose
\* count is at most --parallel; and a state_check admits exactly when the
\* number of unhealthy PGs it reads is at most --parallel (equal admits, one
\* over waits).
C1_Step(r) ==
    /\ issued'[r] # issued[r] =>
          /\ lastEv[r] = "check"
          /\ count[r] <= config[r].parallel
          /\ lastEv'[r] = "cmd"
    /\ (pc[r] = "while" /\ pc'[r] # "while") =>
          /\ count'[r] = UnhealthyCount(cluster)
          /\ UnhealthyCount(cluster) <= config[r].parallel => pc'[r] = "issue"
          /\ UnhealthyCount(cluster) > config[r].parallel => pc'[r] = "sleep"
C1_CommandOnlyAfterAdmission == [][\A r \in Runs : C1_Step(r)]_vars

\* C1 witness: a run was admitted at exactly the ceiling and issued its
\* command, with the ceiling above zero.
C1_Witness ==
    \E r \in Runs :
        /\ lastEv[r] = "cmd"
        /\ config[r].parallel > 0
        /\ count[r] = config[r].parallel

\* C2: after a date_check, for either kind the answer is "due" iff the PG's
\* stamp of that kind is strictly earlier than that kind's now minus its
\* interval in days; a stamp equal to now or equal to the threshold is not
\* due, a stamp one day older than the threshold is due.
LastChecked(r) == pgs[r][Len(nowAt[r])]
C2_For(r, kind) ==
    LET pg == LastChecked(r)
        now == nowAt[r][Len(nowAt[r])][kind]
        th == Threshold(config[r], kind, now)
        st == StampOf(pg, kind)
    IN  /\ date_status[r][kind] <=> Earlier(st, th)
        /\ st = Format(now) => ~date_status[r][kind]
        /\ st = th => ~date_status[r][kind]
        /\ st = DaysBefore(th, 1) => date_status[r][kind]
C2_DueIffOlderThanThreshold ==
    \A r \in Runs : Len(nowAt[r]) > 0 => \A kind \in Kinds : C2_For(r, kind)

\* C2 witness: one date_check found the deep-scrub stamp exactly at its
\* threshold (not due) and the scrub stamp one day older than its threshold
\* (due).
C2_Witness ==
    \E r \in Runs :
        /\ Len(nowAt[r]) > 0
        /\ LET pg == LastChecked(r)
               now == nowAt[r][Len(nowAt[r])]
           IN  /\ config[r].s_interval > 0
               /\ pg.last_deep_scrub_stamp = Threshold(config[r], "deep-scrub", now["deep-scrub"])
               /\ pg.last_scrub_stamp = DaysBefore(Threshold(config[r], "scrub", now["scrub"]), 1)
               /\ date_status[r] = [type \in Kinds |-> type = "scrub"]


\* The pgids of the first n PGs of run r's dump that were due for its kind
\* at the now() of their own eligibility check, in the order of the dump.
RECURSIVE DueIds(_, _)
DueIds(r, n) ==
    IF n = 0 THEN <<>>
    ELSE IF IsDue(pgs[r][n], type_[r], config[r], nowAt[r][n][type_[r]])
         THEN Append(DueIds(r, n - 1), pgs[r][n].pgid)
         ELSE DueIds(r, n - 1)
IssuedIds(r) == [j \in 1..Len(issued[r]) |-> issued[r][j][1]]
Started(r) == pc[r] \notin {"off", "main", "dump"}
Launched(r) == pc[r] \notin {"off", "main"}
\* The PGs the for loop has left behind.
Passed(r) == IF pc[r] \in {"for", "done"} THEN idx[r] - 1 ELSE idx[r]
Last(w) == w[Len(w)]

\* C3: a run that has reported completion has issued exactly one command for
\* each PG of its dump that was due for its kind and none for any other PG,
\* and has slept one pacing delay per command; all along, the commands are
\* those of the due PGs passed so far, the run is in an admission wait or at
\* a command only for a due PG, and the pacing delay of a command has been
\* slept before the for loop looks at the next PG.
C3_For(r) ==
    /\ Len(nowAt[r]) = Passed(r)
    /\ pc[r] \in {"while", "sleep", "issue", "pace"} =>
          IsDue(pgs[r][idx[r]], type_[r], config[r], nowAt[r][idx[r]][type_[r]])
    /\ IssuedIds(r) = DueIds(r, IF pc[r] \in {"while", "sleep", "issue"}
                                THEN idx[r] - 1 ELSE Len(nowAt[r]))
    /\ paces[r] = (IF pc[r] = "pace" THEN Len(issued[r]) - 1 ELSE Len(issued[r]))
    /\ pc[r] = "done" =>
          /\ idx[r] = Len(pgs[r]) + 1
          /\ IssuedIds(r) = DueIds(r, Len(pgs[r]))
          /\ paces[r] = Len(issued[r])
C3_OneCommandPerDuePG ==
    \A r \in Runs : Started(r) => C3_For(r)

\* C3 witness: a completed run whose dump held a due PG and a PG that was
\* not due: one command, one pacing delay.
C3_Witness ==
    \E r \in Runs :
        /\ pc[r] = "done"
        /\ Len(issued[r]) = 1
        /\ paces[r] = 1
        /\ \E i \in 1..Len(pgs[r]) :
              ~IsDue(pgs[r][i], type_[r], config[r], nowAt[r][i][type_[r]])

\* The wait history of k polls over the ceiling, each followed by the poll
\* sleep: "over", "sleep", "over", "sleep", ...
OverSleeps(w, k) ==
    /\ Len(w) >= 2 * k
    /\ \A i \in 1..k : w[2 * i - 1] = "over" /\ w[2 * i] = "sleep"

\* C4: when a run stands at its command after an admission wait whose first
\* k state_checks were over the ceiling and whose next was not, it has made
\* exactly k + 1 state_checks and slept the poll delay exactly k times, one
\* sleep after each check over the ceiling; and a check that is not over the
\* ceiling is followed by the command, with no further check or sleep.
C4_For(r) ==
    LET w == wait[r]
        k == (Len(w) - 1) \div 2
    IN  /\ (pc[r] = "issue" /\ w[1] # "long") =>
              /\ Len(w) = 2 * k + 1
              /\ OverSleeps(w, k)
              /\ w[2 * k + 1] = "ok"
        /\ pc[r] = "issue" => Last(w) = "ok"
        /\ (w # <<>> /\ Last(w) = "ok") => (pc[r] = "issue" \/ lastEv[r] \in {"cmd", "pace"})
C4_PollsUntilAdmitted ==
    \A r \in Runs : Started(r) => C4_For(r)

\* C4 witness: two checks over the ceiling, two poll sleeps, a third check
\* that admits, and the run at its command.
C4_Witness ==
    \E r \in Runs :
        /\ pc[r] = "issue"
        /\ wait[r] = <<"over", "sleep", "over", "sleep", "ok">>

\* C5: as long as no state_check of the current admission wait has found the
\* count at or under the ceiling, however long the wait, the run is still
\* polling: it has issued no command for the waiting PG or a later one and
\* has not reported completion.
C5_For(r) ==
    (pc[r] \in {"while", "sleep", "issue", "pace"} /\ (wait[r] = <<>> \/ Last(wait[r]) # "ok")) =>
        /\ pc[r] \in {"while", "sleep"}
        /\ pc[r] = "sleep" => count[r] > config[r].parallel
        /\ \A j \in 1..Len(issued[r]) :
              \A i \in idx[r]..Len(pgs[r]) : issued[r][j][1] # pgs[r][i].pgid
C5_NoTimeout ==
    \A r \in Runs : Started(r) => C5_For(r)

\* C5 witness: a run still polling after more polls than the history keeps.
C5_Witness ==
    \E r \in Runs : pc[r] = "sleep" /\ wait[r] = <<"long">>

\* Where pgid p stands in run r's dump (0 when it is not there).
Position(r, p) ==
    IF \E i \in 1..Len(pgs[r]) : pgs[r][i].pgid = p
    THEN CHOOSE i \in 1..Len(pgs[r]) : pgs[r][i].pgid = p
    ELSE 0

\* C9: a run visits the PGs of its first dump in the dump's order, each one
\* once: it has made one eligibility check per PG it has reached, each pgid
\* has at most one command, the commands are in the order of the dump, and
\* none is for a PG the for loop has not reached.
C9_For(r) ==
    /\ Len(nowAt[r]) = Passed(r)
    /\ idx[r] \in 1..(Len(pgs[r]) + 1)
    /\ Len(pgs[r]) = NumPGs
    /\ \A i, j \in 1..Len(issued[r]) :
          i < j => Position(r, issued[r][i][1]) < Position(r, issued[r][j][1])
    /\ \A j \in 1..Len(issued[r]) :
          Position(r, issued[r][j][1]) \in 1..Min(idx[r], Len(pgs[r]))
C9_EachPGOnceInOrder ==
    \A r \in Runs : Started(r) => C9_For(r)

\* C9 witness: a completed run that issued two commands, the second after an
\* admission wait with a poll sleep.
C9_Witness ==
    \E r \in Runs :
        /\ pc[r] = "done"
        /\ Len(issued[r]) = 2
        /\ Len(wait[r]) > 1

\* C10: a rejected command is not fatal and not retried: the run goes on to
\* the pacing delay, no other command of the run is for the same PG, and a
\* run that has reported completion has issued the command of every due PG,
\* rejected or not.
C10_For(r) ==
    /\ pc[r] # "error"
    /\ \A j \in 1..Len(issued[r]) :
          ~issued[r][j][2] =>
              /\ \A i \in 1..Len(issued[r]) : i # j => issued[r][i][1] # issued[r][j][1]
              /\ paces[r] >= j \/ (j = Len(issued[r]) /\ pc[r] = "pace")
    /\ pc[r] = "done" => IssuedIds(r) = DueIds(r, Len(pgs[r]))
C10_RejectedCommandNotFatal ==
    \A r \in Runs : Started(r) => C10_For(r)

\* C10 witness: a completed run whose first command was rejected and which
\* issued a second command afterwards.
C10_Witness ==
    \E r \in Runs :
        /\ pc[r] = "done"
        /\ Len(issued[r]) = 2
        /\ ~issued[r][1][2]
        /\ paces[r] = 2

\* C6: when a run issues the command for a PG, that PG is due for the run's
\* kind by the last snapshot the run has fetched (the one of the admission
\* check that let the command through), not only by the dump the for loop
\* iterates.
C6_Step(r) ==
    issued'[r] # issued[r] =>
        \E i \in 1..Len(fetched[r]) :
            /\ fetched[r][i].pgid = pgs[r][idx[r]].pgid
            /\ IsDue(fetched[r][i], type_[r], config[r], clock)
C6_CommandForPGDueNow == [][\A r \in Runs : C6_Step(r)]_vars

\* C7: on a quiet cluster the number of PGs that are not active+clean never
\* exceeds the --parallel of the run.
C7_NeverOverCeiling ==
    \A r \in Runs : Started(r) => UnhealthyCount(cluster) <= config[r].parallel

\* C8: with two runs of the same ceiling on a quiet cluster, admission is a
\* reading, not a reservation: a run stands at its command only after a
\* state_check of its own that was not over the ceiling, whatever the other
\* run has done since, and a run that was admitted stays admitted when the
\* other run's command makes the cluster exceed the ceiling; the overshoot is
\* at most one PG per run.
SameCeiling == \A r, q \in Runs : Launched(r) /\ Launched(q) /\ config[r].parallel = config[q].parallel
C8_AdmissionIsAdvisory ==
    /\ SameCeiling
    /\  \A r \in Runs :
            /\ pc[r] = "issue" => (lastEv[r] = "check" /\ count[r] <= config[r].parallel)
            /\ pc[r] = "sleep" => count[r] > config[r].parallel
            /\ UnhealthyCount(cluster) <= config[r].parallel + Cardinality(Runs)

\* C8 witness: both runs passed admission on counts within the ceiling, both
\* issued their command, and more PGs are unhealthy than one run alone, held
\* to the ceiling at each admission, can cause.
C8_Witness ==
    /\ \A r \in Runs :
          /\ lastEv[r] = "cmd"
          /\ count[r] <= config[r].parallel
          /\ config[r].parallel = 0
    /\ UnhealthyCount(cluster) = Cardinality(Runs)

\* C11: a failed fetch is fatal and not retried: the step on which a fetch
\* fails, be it the dump of do_scrub, the dump of status or the fetch of any
\* state_check of an admission wait, leaves the process in its error state;
\* and a process in its error state stays there: it issues no further
\* command, fetches and sleeps no more, and never reports completion.
C11_Step(r) ==
    /\ (lastEv'[r] = "fetch_failed" /\ lastEv[r] # "fetch_failed") => pc'[r] = "error"
    /\ lastEv[r] = "fetch_failed" => pc[r] = "error"
    /\ pc[r] = "error" =>
          /\ pc'[r] = "error"
          /\ issued'[r] = issued[r]
          /\ lastEv'[r] = lastEv[r]
          /\ paces'[r] = paces[r]
          /\ wait'[r] = wait[r]
C11_FetchFailureIsFatal == [][\A r \in Runs : C11_Step(r)]_vars

\* C11 witness: a run that had issued a command and slept in the admission
\* wait of the next PG ended in error on the failed fetch of a poll, while
\* the cluster went on (the scrub it had started is over).
C11_Witness ==
    \E r \in Runs :
        /\ pc[r] = "error"
        /\ lastEv[r] = "fetch_failed"
        /\ Len(issued[r]) = 1
        /\ Len(wait[r]) >= 2
        /\ UnhealthyCount(cluster) = 0

\* The places in run r's dump of the PGs with a stamp that is missing or
\* malformed.
Unreadable(r) ==
    {i \in 1..Len(pgs[r]) :
        \E kind \in Kinds : StampOf(pgs[r][i], kind) \in {Malformed, Missing}}
FirstOf(S) == CHOOSE i \in S : \A j \in S : i <= j

\* C12: a PG with a missing or malformed stamp gets no due / not-due answer
\* and no command, and the error aborts the operation there, in a scheduling
\* run and in a status report alike: the loop never gets past the first such
\* PG of the dump, no eligibility answer is recorded for it, no command is
\* for it or for a later PG, completion is not reported, and once the loop
\* has come to it the process is in its error state.
C12_For(r) ==
    Unreadable(r) # {} =>
        LET b == FirstOf(Unreadable(r))
        IN  /\ idx[r] <= b
            /\ Len(nowAt[r]) < b
            /\ pc[r] # "done"
            /\ \A j \in 1..Len(issued[r]) : Position(r, issued[r][j][1]) < b
            /\ (idx[r] = b /\ pc[r] \notin {"for", "status_for"}) => pc[r] = "error"
            /\ config[r].status => issued[r] = <<>>
C12_UnreadableStampAborts ==
    \A r \in Runs : pgs[r] # <<>> => C12_For(r)

\* C12 witness: a scheduling run issued the command of its first PG, slept
\* the pacing delay, and ended in error at its second PG, whose stamp of the
\* run's kind is malformed.
C12_Witness ==
    \E r \in Runs :
        /\ pc[r] = "error"
        /\ lastEv[r] = "pace"
        /\ idx[r] = 2
        /\ Len(issued[r]) = 1
        /\ StampOf(pgs[r][2], type_[r]) = Malformed

\* C18: in a scheduling run the stamp of the run's own kind alone decides
\* what happens at a PG: a PG the loop has passed was commanded exactly when
\* its own-kind stamp was due, and the run ends in error at a PG only when
\* that PG's own-kind stamp is missing or malformed, whatever its stamp of
\* the other kind.
C18_For(r) ==
    /\ \A i \in 1..(idx[r] - 1) :
          (\E j \in 1..Len(issued[r]) : issued[r][j][1] = pgs[r][i].pgid)
              <=> IsDue(pgs[r][i], type_[r], config[r], nowAt[r][i][type_[r]])
    /\ (pc[r] = "error" /\ lastEv[r] # "fetch_failed") =>
          StampOf(pgs[r][idx[r]], type_[r]) \in {Malformed, Missing}
C18_OwnStampDecides ==
    \A r \in Runs : (pgs[r] # <<>> /\ ~config[r].status) => C18_For(r)

\* The PGs among the first n of run r's dump that were due for `kind` at the
\* now() of their eligibility check, and those with errors of `kind`.
DueAmong(r, n, kind) ==
    {i \in 1..n : IsDue(pgs[r][i], kind, config[r], nowAt[r][i][kind])}
ErrorsOf(pg, kind) ==
    IF kind = "deep-scrub" THEN pg.stat_sum.num_deep_scrub_errors
    ELSE pg.stat_sum.num_scrub_errors
ErrAmong(r, n, kind) == {i \in 1..n : ErrorsOf(pgs[r][i], kind) > 0}

\* C13: the status report makes one pass over its dump, and after the first
\* n PGs each of its four counters is the number of PGs among them that
\* satisfy the counter's own predicate (due for scrub, due for deep-scrub,
\* scrub errors above zero, deep-scrub errors above zero), whatever the other
\* three predicates say of the PG; the summary is that of all PGs of the dump.
C13_For(r) ==
    LET n == idx[r] - 1
    IN  /\ idx[r] \in 1..(Len(pgs[r]) + 1)
        /\ Len(nowAt[r]) = n
        /\ Len(pgs[r]) = NumPGs
        /\ s_count[r] = Cardinality(DueAmong(r, n, "scrub"))
        /\ ds_count[r] = Cardinality(DueAmong(r, n, "deep-scrub"))
        /\ se_count[r] = Cardinality(ErrAmong(r, n, "scrub"))
        /\ dse_count[r] = Cardinality(ErrAmong(r, n, "deep-scrub"))
        /\ pc[r] = "done" => n = NumPGs
C13_FourIndependentCounters ==
    \A r \in Runs : pc[r] \in {"status_for", "done"} => C13_For(r)

\* C13 witness: a finished report over a PG that counts for all four
\* counters (with more than one error of each kind) and a PG that counts for
\* scrub alone.
C13_Witness ==
    \E r \in Runs :
        /\ pc[r] = "done"
        /\ s_count[r] = 2
        /\ ds_count[r] = 1
        /\ se_count[r] = 1
        /\ dse_count[r] = 1
        /\ \E i \in 1..Len(pgs[r]) :
              /\ i \in DueAmong(r, NumPGs, "deep-scrub")
              /\ ErrorsOf(pgs[r][i], "scrub") > 1
              /\ ErrorsOf(pgs[r][i], "deep-scrub") > 1

\* C14: the status report is read-only and repeatable: a step of a report
\* leaves the cluster as it is, issues no command and sleeps neither the
\* poll nor the pacing delay, and the only thing it does to the outside is
\* its one fetch; and two finished reports that fetched the same snapshot,
\* with the same configuration and the same now() at each PG, show the same
\* four counters.
C14_Step(r) ==
    /\ (pc'[r] # pc[r] \/ idx'[r] # idx[r]) => cluster' = cluster
    /\ issued'[r] = <<>>
    /\ paces'[r] = 0
    /\ wait'[r] = <<>>
    /\ lastEv'[r] \in {"none", "dump"}
    /\ lastEv[r] = "dump" => (lastEv'[r] = "dump" /\ fetched'[r] = fetched[r])
SameSummary(r, q) ==
    /\ s_count[r] = s_count[q]
    /\ ds_count[r] = ds_count[q]
    /\ se_count[r] = se_count[q]
    /\ dse_count[r] = dse_count[q]
C14_Twice ==
    \A r, q \in Runs :
        (/\ pc[r] = "done" /\ pc[q] = "done"
         /\ fetched[r] = fetched[q]
         /\ config[r] = config[q]
         /\ nowAt[r] = nowAt[q]) => SameSummary(r, q)
C14_StatusReadOnly == [][\A r \in Runs : C14_Step(r)]_vars /\ []C14_Twice

\* C14 witness: two finished reports of the same snapshot at the same now()
\* with something to count and something not to count.
C14_Witness ==
    /\ \A r \in Runs : pc[r] = "done" /\ s_count[r] > 0 /\ se_count[r] > 0
    /\ fetched[1] = fetched[2]
    /\ nowAt[1] = nowAt[2]
    /\ ds_count[1] = 0
    /\ dse_count[1] < NumPGs

\* C15: each state_check returns the number of PGs whose state, in the
\* cluster as it is at that very check, is anything but active+clean (so 0
\* when all are clean, NumPGs when none is), whatever the dump of the for
\* loop or an earlier check of the same wait has seen.
C15_Step(r) ==
    (pc[r] = "while" /\ pc'[r] # "while") =>
        /\ count'[r] = Cardinality({p \in PGs : cluster[p].state # CleanTag})
        /\ (\A p \in PGs : cluster[p].state = CleanTag) <=> count'[r] = 0
        /\ (\A p \in PGs : cluster[p].state # CleanTag) <=> count'[r] = NumPGs
        /\ \A p \in PGs : fetched'[r][p] = Entry(dump(cluster).pg_stats[p])
C15_CountsUncleanOfFreshDump == [][\A r \in Runs : C15_Step(r)]_vars

\* C15 witness: in one admission wait the first check counted every PG as
\* not clean (scrubbing and troubled ones), the next check, one poll sleep
\* later, counted none.
C15_Witness ==
    \E r \in Runs :
        /\ pc[r] = "issue"
        /\ wait[r] = <<"over", "sleep", "ok">>
        /\ count[r] = 0
        /\ config[r].parallel = MaxParallel
        /\ \E i \in 1..Len(issued[r]) : issued[r][i][2]

\* C16: a run reports completion only when its for loop has left the last
\* PG of its first dump behind, every PG of it having had its eligibility
\* check and then been skipped as not due or been commanded and paced; and
\* on a quiet cluster, where every scrub ends and so every admission wait
\* comes to see the count within the ceiling, and no fetch or stamp fails,
\* a launched run does come to report completion.
C16_AllVisited(r) ==
    pc[r] = "done" =>
        /\ idx[r] = Len(pgs[r]) + 1
        /\ Len(pgs[r]) = NumPGs
        /\ Len(nowAt[r]) = NumPGs
        /\ IssuedIds(r) = DueIds(r, NumPGs)
        /\ paces[r] = Len(issued[r])
        /\ lastEv[r] \in {"dump", "pace"}
C16_CompletionAfterAllPGs ==
    /\ [](\A r \in Runs : C16_AllVisited(r))
    /\ \A r \in Runs : (pc[r] = "main") ~> (pc[r] = "done")

\* C16 witness: a run that reported completion after a command for every PG
\* of its dump, the last one after an admission wait of one poll sleep.
C16_Witness ==
    \E r \in Runs :
        /\ pc[r] = "done"
        /\ Len(issued[r]) = NumPGs
        /\ wait[r] = <<"over", "sleep", "ok">>

\* C17: a signal stops a run at its suspension points, the poll sleep and
\* the pacing sleep, and only there: a run that was stopped issues no
\* further command, and no run is stopped inside the issuance of a command,
\* between the start of `ceph pg <kind> <pgid>` and its answer.
Stopped(r) == pc[r] \in {"interrupted", "interrupted_asleep", "interrupted_in_command"}
C17_Step(r) ==
    Stopped(r) => (pc'[r] = pc[r] /\ issued'[r] = issued[r])
C17_CancelBetweenCommands ==
    /\ [][\A r \in Runs : C17_Step(r)]_vars
    /\ [](\A r \in Runs : pc[r] # "interrupted_in_command")

\* Where a process stands inside do_scrub, and inside status.
InDoScrub(r) == pc[r] \in {"dump", "for", "while", "sleep", "issue", "pace"}
InStatus(r) == pc[r] \in {"status", "status_for"}
NoFetch(r) == lastEv[r] = "none" /\ fetched[r] = <<>> /\ pgs[r] = <<>>
NoReport(r) == s_count[r] = 0 /\ ds_count[r] = 0 /\ se_count[r] = 0 /\ dse_count[r] = 0
                  /\ (pc[r] = "done" => Len(pgs[r]) = Len(nowAt[r]))

\* C19: one invocation of main runs at most one operation, by the priority
\* status > deep-scrub > scrub.  With --status the process is in status and
\* nowhere else, whatever else was selected, and issues no command; without
\* it and with --deep-scrub it is in do_scrub of kind deep-scrub with pacing
\* delay 15 and makes no report; with --scrub alone it is in do_scrub of
\* kind scrub with pacing delay 1; with no selector it exits having fetched
\* nothing and issued nothing.
C19_For(r) ==
    LET cfg == config[r]
    IN  /\ cfg.status =>
              /\ InStatus(r) \/ pc[r] = "done"
              /\ issued[r] = <<>> /\ paces[r] = 0 /\ wait[r] = <<>>
              /\ type_[r] = "none"
              /\ \A p \in PGs : cluster[p].state = CleanTag
        /\ (~cfg.status /\ cfg.deep_scrub) =>
              /\ InDoScrub(r) \/ pc[r] = "done"
              /\ type_[r] = "deep-scrub" /\ delay[r] = 15
              /\ NoReport(r)
              /\ \A p \in PGs : cluster[p].state # ScrubbingTag("scrub")
        /\ (~cfg.status /\ ~cfg.deep_scrub /\ cfg.scrub) =>
              /\ InDoScrub(r) \/ pc[r] = "done"
              /\ type_[r] = "scrub" /\ delay[r] = 1
              /\ NoReport(r)
              /\ \A p \in PGs : cluster[p].state # ScrubbingTag("deep-scrub")
        /\ (~cfg.status /\ ~cfg.deep_scrub /\ ~cfg.scrub) =>
              /\ pc[r] = "exit"
              /\ NoFetch(r)
              /\ issued[r] = <<>>
              /\ NoReport(r)
C19_OneOperationByPriority ==
    \A r \in Runs : pc[r] \notin {"off", "main"} => C19_For(r)

\* C19 witness: a process started with --deep-scrub and --scrub both has
\* finished a deep-scrub run with a command for every PG, and the cluster
\* is deep-scrubbing one of them.
C19_Witness ==
    \E r \in Runs :
        /\ config[r].deep_scrub /\ config[r].scrub /\ ~config[r].status
        /\ pc[r] = "done"
        /\ Len(issued[r]) = NumPGs
        /\ \E p \in PGs : cluster[p].state = ScrubbingTag("deep-scrub")

====
